---- MODULE Spec2Model ----
(***************************************************************************)
(* Membership state machine and failure detector of memberlist             *)
(* (src/state.go): the node table (nodeMap + nodes over shared records),   *)
(* the incarnation and sequence counters, aliveNode / suspectNode /        *)
(* deadNode / mergeState, the suspicion timers, probe / probeNode /        *)
(* resetNodes and the ack registry.                                        *)
(*                                                                         *)
(* Records are heap objects named by an id (an address), so that nodeMap,  *)
(* nodes, the suspicion timers and a running probe hold pointers to the    *)
(* same record.  Addresses are kept canonical: the record created for a    *)
(* name lives at the id equal to that name while the table holds it; a     *)
(* record that resetNodes removed while suspicion timer i still points at  *)
(* it moves to id MaxNode + i (nothing writes to it any more) and is       *)
(* collected when that timer is done.                                      *)
(* Addr and Meta are opaque to state.go and are left out.                  *)
(***************************************************************************)
EXTENDS Integers, Sequences, FiniteSets, TLC

\* ---------------------------------------------------------------- bounds
MaxNode == 2      \* node names are 1..MaxNode
MaxInc == 2       \* incarnations carried by events and reached by the counter
MaxClock == 2     \* readings of time.Now()
MaxTimers == 1    \* suspicion timers pending at once
MaxRemote == 1    \* length of a push/pull state vector
MaxSeq == 1       \* sequence numbers handed out by nextSeqNo
IndirectChecks == 1 \* config.IndirectChecks; ackCh holds IndirectChecks+1
MaxRoundNode == 3 \* node names in the tables the probe ticks walk round
MaxInterval == 1     \* largest ProbeInterval, PushPullInterval, GossipInterval
MaxGossipNodes == 1  \* largest config.GossipNodes

\* ------------------------------------------------------- program constants
StateAlive == 0
StateSuspect == 1
StateDead == 2

Names == 1..MaxNode
\* m.config.Name
Self == 1
Incs == 0..MaxInc
States == {StateAlive, StateSuspect, StateDead}
Ids == 1..(MaxNode + MaxTimers)
\* the zero time.Time of a record that never changed state
ZeroTime == 0

VARIABLES
    heap,         \* id -> NodeState, the records that are still referenced
    nodeMap,      \* m.nodeMap: name -> id
    nodes,        \* m.nodes: sequence of ids
    probeIndex,   \* m.probeIndex (0-based)
    incarnation,  \* m.incarnation
    sequenceNum,  \* m.sequenceNum
    leave,        \* m.leave
    clock,        \* what time.Now() returns
    timers,       \* the time.AfterFunc callbacks armed by suspectNode
    ackHandlers,  \* m.ackHandlers: the seqNos that hold a handler
    ackTimer,     \* seqNo -> state of the registration's reap timer
    ackCh,        \* seqNo -> contents of the probe's ackCh
    acking,       \* invokeAckHandler calls between the lookup and the handler
    pr,           \* the probe goroutine: its position and locals
    out,          \* broadcasts and notifications produced by the last step
    notified,     \* name -> last notification sent for it on JoinCh / LeaveCh
    config,       \* m.config: the intervals and GossipNodes
    tickers,      \* m.tickers: the tickers schedule created, by activity
    ticker,       \* activity -> "none", "on" or "stopped": its time.Ticker
    tickC,        \* activity -> ticks buffered in the ticker's channel t.C
    drivers,      \* activity -> state of its triggerFunc goroutine
    sc            \* schedule / deschedule: position and loop index

\* the state of the scheduler
schedVars == <<config, tickers, ticker, tickC, drivers, sc>>

vars == <<heap, nodeMap, nodes, probeIndex, incarnation, sequenceNum, leave,
          clock, timers, ackHandlers, ackTimer, ackCh, acking, pr, out, notified,
          schedVars>>

tableVars == <<heap, nodeMap, nodes, incarnation, timers, out, notified>>
ackVars == <<ackHandlers, ackTimer, ackCh, acking>>

\* ------------------------------------------------------------- messages
Msg(kind, node, inc) == [kind |-> kind, Node |-> node, Incarnation |-> inc]

NoEvent == [Node |-> 0, Incarnation |-> 0]
IdleTimer == [pc |-> "idle", rec |-> 0, changeTime |-> 0, d |-> NoEvent]
IdleProbe == [pc |-> "idle", node |-> 0, seq |-> 0, s |-> NoEvent]

\* The part of the state the handlers of the state machine work on, with
\* ovf set when a step would leave the bounds of the model.
Table ==
    [heap |-> heap, nodeMap |-> nodeMap, nodes |-> nodes,
     incarnation |-> incarnation, timers |-> timers, out |-> <<>>,
     notified |-> notified, ovf |-> FALSE]

\* m.encodeAndBroadcast(name, kind, payload)
encodeAndBroadcast(T, kind, node, inc) ==
    [T EXCEPT !.out = Append(@, Msg(kind, node, inc))]

\* notify(m.config.JoinCh, ...) / notify(m.config.LeaveCh, ...)
notify(T, kind, node) ==
    [T EXCEPT !.out = Append(@, Msg(kind, node, 0)),
              !.notified[node] = kind]

Min(S) == CHOOSE x \in S : \A y \in S : x <= y

Swap(s, i, j) == [s EXCEPT ![i] = s[j], ![j] = s[i]]

\* randomOffset(n): an index below n drawn from the random number r, 0 for
\* an empty sequence
randomOffset(n, r) == IF n = 0 THEN 0 ELSE r % n

\* nextIncarnation(): atomic.AddUint32(&m.incarnation, 1)
nextIncarnation(T) ==
    IF T.incarnation + 1 > MaxInc
      THEN [T EXCEPT !.ovf = TRUE]
      ELSE [T EXCEPT !.incarnation = @ + 1]

\* aliveNode storing the new record at the offset without moving the record
\* that was there to the end: `m.nodes[offset] = state` for the swap of
\* line 372
aliveInsertNoSwap(T, a, r) ==
    IF a.Node \in DOMAIN T.nodeMap THEN T
    ELSE
      LET id == a.Node
          n == Len(T.nodes)
          offset == randomOffset(n, r)
          rec == [Name |-> a.Node, Incarnation |-> 0, State |-> StateDead,
                  StateChange |-> ZeroTime]
      IN [T EXCEPT !.heap = (id :> rec) @@ @,
                   !.nodeMap = (a.Node :> id) @@ @,
                   !.nodes = [Append(T.nodes, id) EXCEPT ![offset + 1] = id]]

\* aliveNode, lines 349-373: a name never seen gets a record in state Dead
\* with the zero Incarnation, entered in the map and swapped into the
\* sequence at a random offset.
aliveInsert(T, a, r) ==
    IF a.Node \in DOMAIN T.nodeMap THEN T
    ELSE
      LET id == a.Node
          n == Len(T.nodes)
          offset == randomOffset(n, r)
          rec == [Name |-> a.Node, Incarnation |-> 0, State |-> StateDead,
                  StateChange |-> ZeroTime]
      IN [T EXCEPT !.heap = (id :> rec) @@ @,
                   !.nodeMap = (a.Node :> id) @@ @,
                   !.nodes = Swap(Append(T.nodes, id), offset + 1, n + 1)]

\* aliveNode with the incarnation test off by one: `<` for `<=` at line 376
aliveNodeAcceptsEqual(T0, a, r, now) ==
    LET T == aliveInsert(T0, a, r)
    IN IF T.ovf THEN T
       ELSE
         LET id == T.nodeMap[a.Node]
             state == T.heap[id]
         IN IF a.Incarnation < state.Incarnation THEN T
            ELSE
              LET T1 == encodeAndBroadcast(T, "alive", a.Node, a.Incarnation)
                  oldState == state.State
                  T2 == [T1 EXCEPT
                           !.heap[id].Incarnation = a.Incarnation,
                           !.heap[id].State = StateAlive,
                           !.heap[id].StateChange =
                               IF oldState # StateAlive THEN now ELSE @]
              IN IF oldState = StateDead
                   THEN notify(T2, "join", state.Name)
                   ELSE T2

\* aliveNode notifying of a join on every change to Alive: `oldState !=
\* StateAlive` for `oldState == StateDead` at line 392
aliveNodeJoinsFromSuspect(T0, a, r, now) ==
    LET T == aliveInsert(T0, a, r)
    IN IF T.ovf THEN T
       ELSE
         LET id == T.nodeMap[a.Node]
             state == T.heap[id]
         IN IF a.Incarnation <= state.Incarnation THEN T
            ELSE
              LET T1 == encodeAndBroadcast(T, "alive", a.Node, a.Incarnation)
                  oldState == state.State
                  T2 == [T1 EXCEPT
                           !.heap[id].Incarnation = a.Incarnation,
                           !.heap[id].State = StateAlive,
                           !.heap[id].StateChange =
                               IF oldState # StateAlive THEN now ELSE @]
              IN IF oldState # StateAlive
                   THEN notify(T2, "join", state.Name)
                   ELSE T2

\* aliveNode(a)
aliveNode(T0, a, r, now) ==
    LET T == aliveInsert(T0, a, r)
    IN IF T.ovf THEN T
       ELSE
         LET id == T.nodeMap[a.Node]
             state == T.heap[id]
         IN IF a.Incarnation <= state.Incarnation THEN T
            ELSE
              LET T1 == encodeAndBroadcast(T, "alive", a.Node, a.Incarnation)
                  oldState == state.State
                  T2 == [T1 EXCEPT
                           !.heap[id].Incarnation = a.Incarnation,
                           !.heap[id].State = StateAlive,
                           !.heap[id].StateChange =
                               IF oldState # StateAlive THEN now ELSE @]
              IN IF oldState = StateDead
                   THEN notify(T2, "join", state.Name)
                   ELSE T2

\* lines 420-426 and 476-482: refute an event about ourselves
refute(T, id) ==
    LET T1 == nextIncarnation(T)
        inc == T1.incarnation
    IN IF T1.ovf THEN T1
       ELSE [encodeAndBroadcast(T1, "alive", T.heap[id].Name, inc)
               EXCEPT !.heap[id].Incarnation = inc]

\* lines 437-443: time.AfterFunc(timeout, ...) bound to state and changeTime
armTimer(T, id, changeTime) ==
    LET free == {i \in DOMAIN T.timers : T.timers[i].pc = "idle"}
    IN IF free = {} THEN [T EXCEPT !.ovf = TRUE]
       ELSE [T EXCEPT !.timers[Min(free)] =
                 [pc |-> "armed", rec |-> id, changeTime |-> changeTime,
                  d |-> NoEvent]]

\* suspectNode(s)
suspectNode(T, s, now) ==
    IF s.Node \notin DOMAIN T.nodeMap THEN T
    ELSE
      LET id == T.nodeMap[s.Node]
          state == T.heap[id]
      IN IF s.Incarnation < state.Incarnation THEN T
         ELSE IF state.State # StateAlive THEN T
         ELSE IF state.Name = Self THEN refute(T, id)
         ELSE
           LET T1 == encodeAndBroadcast(T, "suspect", s.Node, s.Incarnation)
               T2 == [T1 EXCEPT !.heap[id].Incarnation = s.Incarnation,
                                !.heap[id].State = StateSuspect,
                                !.heap[id].StateChange = now]
           IN armTimer(T2, id, now)

\* deadNode without the refutation of lines 476-482
deadNodeNoRefute(T, d, now, lv) ==
    IF d.Node \notin DOMAIN T.nodeMap THEN T
    ELSE
      LET id == T.nodeMap[d.Node]
          state == T.heap[id]
      IN IF d.Incarnation < state.Incarnation THEN T
         ELSE IF state.State = StateDead THEN T
         ELSE
           LET T1 == encodeAndBroadcast(T, "dead", d.Node, d.Incarnation)
               T2 == [T1 EXCEPT !.heap[id].Incarnation = d.Incarnation,
                                !.heap[id].State = StateDead,
                                !.heap[id].StateChange = now]
           IN notify(T2, "leave", state.Name)

\* deadNode(d)
deadNode(T, d, now, lv) ==
    IF d.Node \notin DOMAIN T.nodeMap THEN T
    ELSE
      LET id == T.nodeMap[d.Node]
          state == T.heap[id]
      IN IF d.Incarnation < state.Incarnation THEN T
         ELSE IF state.State = StateDead THEN T
         ELSE IF state.Name = Self /\ ~lv THEN refute(T, id)
         ELSE
           LET T1 == encodeAndBroadcast(T, "dead", d.Node, d.Incarnation)
               T2 == [T1 EXCEPT !.heap[id].Incarnation = d.Incarnation,
                                !.heap[id].State = StateDead,
                                !.heap[id].StateChange = now]
           IN notify(T2, "leave", state.Name)

\* mergeState, lines 510-522: the handler a remote record is fed to
mergeOne(T, r, rnd, now, lv) ==
    LET ev == [Node |-> r.Name, Incarnation |-> r.Incarnation]
    IN IF r.State = StateAlive THEN aliveNode(T, ev, rnd, now)
       ELSE IF r.State = StateSuspect THEN suspectNode(T, ev, now)
       ELSE deadNode(T, ev, now, lv)

\* mergeState, lines 501-508: skip a record whose State we agree on
mergeSkip(T, r) ==
    r.Name \in DOMAIN T.nodeMap /\ T.heap[T.nodeMap[r.Name]].State = r.State

RECURSIVE mergeFrom(_, _, _, _, _, _)
mergeFrom(T, remote, rnds, i, now, lv) ==
    IF i > Len(remote) \/ T.ovf THEN T
    ELSE
      LET r == remote[i]
          T1 == IF mergeSkip(T, r) THEN T
                ELSE mergeOne(T, r, rnds[i], now, lv)
      IN mergeFrom(T1, remote, rnds, i + 1, now, lv)

\* mergeState(remote)
mergeState(T, remote, rnds, now, lv) == mergeFrom(T, remote, rnds, 1, now, lv)

\* ------------------------------------------------------------ the inputs
\* alive / suspect / dead messages: {Incarnation, Node}
Events == [Node : Names, Incarnation : Incs]
\* pushNodeState: {Name, Incarnation, State}
PushNodeStates == [Name : Names, Incarnation : Incs, State : States]
\* the random numbers randomOffset draws from: reduced modulo the length of
\* a sequence of at most MaxNode - 1 records they give every offset
Rands == 0..(MaxNode - 2)
SeqNos == 1..MaxSeq
RECURSIVE SeqsUpTo(_, _)
SeqsUpTo(S, n) ==
    IF n = 0 THEN {<<>>}
    ELSE LET shorter == SeqsUpTo(S, n - 1)
         IN shorter \cup {Append(q, x) : q \in {t \in shorter : Len(t) = n - 1}, x \in S}

Range(f) == {f[x] : x \in DOMAIN f}
Restrict(f, S) == [x \in S |-> f[x]]

\* The records something still points at: the map, the sequence and the
\* pending suspicion timers (their captured state).
Referenced(nm, ns, tm) ==
    Range(nm) \cup Range(ns)
      \cup {tm[i].rec : i \in {j \in DOMAIN tm : tm[j].pc # "idle"}}

Collect(h, nm, ns, tm) == Restrict(h, DOMAIN h \cap Referenced(nm, ns, tm))

\* The state after a handler of the state machine has run.
Commit(T) ==
    /\ ~T.ovf
    /\ heap' = Collect(T.heap, T.nodeMap, T.nodes, T.timers)
    /\ nodeMap' = T.nodeMap
    /\ nodes' = T.nodes
    /\ incarnation' = T.incarnation
    /\ timers' = T.timers
    /\ out' = T.out
    /\ notified' = T.notified

\* the periodic activities, in the order schedule arms them
Activities == <<"probe", "pushPull", "gossip">>
Activity == Range(Activities)

\* The scheduler as it is once schedule() has armed the three activities:
\* the state machine and the failure detector take the ticks as they come.
SchedulerRunning ==
    /\ config = [ProbeInterval |-> 1, PushPullInterval |-> 1,
                 GossipInterval |-> 1, GossipNodes |-> 1]
    /\ tickers = Activities
    /\ ticker = [a \in Activity |-> "on"]
    /\ tickC = [a \in Activity |-> 0]
    /\ drivers = [a \in Activity |-> "wait"]
    /\ sc = [pc |-> "running", i |-> 0]

\* The member list as create leaves it: no record, no timer, no handler.
InitMembers ==
    /\ heap = <<>>
    /\ nodeMap = <<>>
    /\ nodes = <<>>
    /\ probeIndex = 0
    /\ incarnation = 0
    /\ sequenceNum = 0
    /\ leave = FALSE
    /\ clock = 1
    /\ timers = [i \in 1..MaxTimers |-> IdleTimer]
    /\ ackHandlers = {}
    /\ ackTimer = [q \in SeqNos |-> "none"]
    /\ ackCh = [q \in SeqNos |-> [sent |-> <<>>, rd |-> 0]]
    /\ acking = {}
    /\ pr = IdleProbe
    /\ out = <<>>
    /\ notified = [n \in Names |-> "none"]

Init ==
    /\ SchedulerRunning
    /\ InitMembers

\* ------------------------------------------------- inbound state machine
AliveNodeOf(a) ==
    /\ \E r \in Rands : Commit(aliveNode(Table, a, r, clock))
    /\ UNCHANGED <<schedVars, probeIndex, sequenceNum, leave, clock, ackVars, pr>>

SuspectNodeOf(s) ==
    /\ Commit(suspectNode(Table, s, clock))
    /\ UNCHANGED <<schedVars, probeIndex, sequenceNum, leave, clock, ackVars, pr>>

DeadNodeOf(d) ==
    /\ Commit(deadNode(Table, d, clock, leave))
    /\ UNCHANGED <<schedVars, probeIndex, sequenceNum, leave, clock, ackVars, pr>>

MergeStateOf(remote) ==
    /\ \E rnds \in [1..Len(remote) -> Rands] :
          Commit(mergeState(Table, remote, rnds, clock, leave))
    /\ UNCHANGED <<schedVars, probeIndex, sequenceNum, leave, clock, ackVars, pr>>

AliveNode == \E a \in Events : AliveNodeOf(a)
SuspectNode == \E s \in Events : SuspectNodeOf(s)
DeadNode == \E d \in Events : DeadNodeOf(d)
MergeState == \E remote \in SeqsUpTo(PushNodeStates, MaxRemote) : MergeStateOf(remote)

\* m.leave is set when the local node leaves the cluster
Leave ==
    /\ ~leave
    /\ leave' = TRUE
    /\ out' = <<>>
    /\ UNCHANGED <<schedVars, heap, nodeMap, nodes, probeIndex, incarnation, sequenceNum,
                   clock, timers, ackVars, pr, notified>>

\* the clock moves on between two readings of time.Now()
Tick ==
    /\ clock < MaxClock
    /\ clock' = clock + 1
    /\ out' = <<>>
    /\ UNCHANGED <<schedVars, heap, nodeMap, nodes, probeIndex, incarnation, sequenceNum,
                   leave, timers, ackVars, pr, notified>>

\* ------------------------------------------------------ suspicion timers
\* The callback of time.AfterFunc in suspectNode (lines 439-443) runs on its
\* own goroutine and reads the record without the node lock: State, then
\* StateChange, then (in suspectTimeout) Incarnation and Name; only deadNode
\* takes the lock.  Each read is a step of its own.
SetTimer(i, t) ==
    /\ timers' = [timers EXCEPT ![i] = t]
    /\ heap' = Collect(heap, nodeMap, nodes, [timers EXCEPT ![i] = t])
    /\ out' = <<>>
    /\ UNCHANGED <<schedVars, nodeMap, nodes, probeIndex, incarnation, sequenceNum, leave,
                   clock, ackVars, pr, notified>>

\* line 440, left operand: state.State == StateSuspect
TimerReadState(i) ==
    /\ timers[i].pc = "armed"
    /\ IF heap[timers[i].rec].State = StateSuspect
         THEN SetTimer(i, [timers[i] EXCEPT !.pc = "suspect"])
         ELSE SetTimer(i, IdleTimer)

\* line 440, right operand: state.StateChange == changeTime
TimerReadChange(i) ==
    /\ timers[i].pc = "suspect"
    /\ IF heap[timers[i].rec].StateChange = timers[i].changeTime
         THEN SetTimer(i, [timers[i] EXCEPT !.pc = "timeout"])
         ELSE SetTimer(i, IdleTimer)

\* suspectTimeout building the dead message without the Incarnation
suspectTimeoutNoIncarnation(i) ==
    /\ timers[i].pc = "timeout"
    /\ SetTimer(i, [timers[i] EXCEPT
                      !.pc = "dead",
                      !.d = [Node |-> heap[timers[i].rec].Name,
                             Incarnation |-> 0]])

\* suspectTimeout, line 449: d := dead{Incarnation: n.Incarnation, Node: n.Name}
suspectTimeout(i) ==
    /\ timers[i].pc = "timeout"
    /\ SetTimer(i, [timers[i] EXCEPT
                      !.pc = "dead",
                      !.d = [Node |-> heap[timers[i].rec].Name,
                             Incarnation |-> heap[timers[i].rec].Incarnation]])

\* suspectTimeout, line 450: m.deadNode(&d)
TimerDeadNode(i) ==
    /\ timers[i].pc = "dead"
    /\ Commit(deadNode([Table EXCEPT !.timers[i] = IdleTimer],
                       timers[i].d, clock, leave))
    /\ UNCHANGED <<schedVars, probeIndex, sequenceNum, leave, clock, ackVars, pr>>

TimerState == \E i \in 1..MaxTimers : TimerReadState(i)
TimerChange == \E i \in 1..MaxTimers : TimerReadChange(i)
TimerTimeout == \E i \in 1..MaxTimers : suspectTimeout(i)
TimerDead == \E i \in 1..MaxTimers : TimerDeadNode(i)

\* ------------------------------------------------------------ ack registry
AckCap == IndirectChecks + 1

\* select { case ch <- v: default: } on the buffered ackCh of seqNo q
trySend(chs, q, v) ==
    IF Len(chs[q].sent) - chs[q].rd < AckCap
      THEN [chs EXCEPT ![q].sent = Append(@, v)]
      ELSE chs

\* what the probe would receive next from the ackCh of seqNo q
Buffered(q) == Len(ackCh[q].sent) - ackCh[q].rd
NextAck(q) == ackCh[q].sent[ackCh[q].rd + 1]

\* the reap timer of setAckChannel expires: its callback starts (line 300)
ReapFire(q) ==
    /\ ackTimer[q] = "armed"
    /\ ackTimer' = [ackTimer EXCEPT ![q] = "fired"]
    /\ out' = <<>>
    /\ UNCHANGED <<schedVars, heap, nodeMap, nodes, probeIndex, incarnation, sequenceNum,
                   leave, clock, timers, ackHandlers, ackCh, acking, pr, notified>>

\* the reap callback, lines 301-307: delete the handler, send false
ReapRun(q) ==
    /\ ackTimer[q] = "fired"
    /\ ackTimer' = [ackTimer EXCEPT ![q] = "done"]
    /\ ackHandlers' = ackHandlers \ {q}
    /\ ackCh' = trySend(ackCh, q, FALSE)
    /\ out' = <<>>
    /\ UNCHANGED <<schedVars, heap, nodeMap, nodes, probeIndex, incarnation, sequenceNum,
                   leave, clock, timers, acking, pr, notified>>

\* invokeAckHandler, lines 331-337: look the handler up and delete it
InvokeLookup(q) ==
    /\ q \in ackHandlers
    /\ ackHandlers' = ackHandlers \ {q}
    /\ acking' = acking \cup {q}
    /\ out' = <<>>
    /\ UNCHANGED <<schedVars, heap, nodeMap, nodes, probeIndex, incarnation, sequenceNum,
                   leave, clock, timers, ackTimer, ackCh, pr, notified>>

\* invokeAckHandler, lines 338-339: ah.timer.Stop(), then ah.handler()
InvokeRun(q) ==
    /\ q \in acking
    /\ acking' = acking \ {q}
    /\ ackTimer' = [ackTimer EXCEPT ![q] = IF @ = "armed" THEN "stopped" ELSE @]
    /\ ackCh' = trySend(ackCh, q, TRUE)
    /\ out' = <<>>
    /\ UNCHANGED <<schedVars, heap, nodeMap, nodes, probeIndex, incarnation, sequenceNum,
                   leave, clock, timers, ackHandlers, pr, notified>>

ReapTimerFire == \E q \in SeqNos : ReapFire(q)
ReapTimerRun == \E q \in SeqNos : ReapRun(q)
InvokeAckLookup == \E q \in SeqNos : InvokeLookup(q)
InvokeAckHandler == \E q \in SeqNos : InvokeRun(q)

\* ------------------------------------------------------------------ probe
\* shuffleNodes: the records put in the order of the ranks that the random
\* source gives them
RECURSIVE orderBy(_, _)
orderBy(S, rank) ==
    IF S = {} THEN <<>>
    ELSE LET first == CHOOSE x \in S : \A y \in S : rank[x] <= rank[y]
         IN <<first>> \o orderBy(S \ {first}, rank)
shuffleNodes(ns, rank) == orderBy(Range(ns), rank)
\* the ranks a shuffle can draw: every order of the records of the table
Ranks == {f \in [Names -> 1..MaxNode] : \A i, j \in Names : f[i] = f[j] => i = j}

\* moveDeadNodes: the records that are not Dead first, the Dead ones after
\* them; deadIdx is where the Dead ones start (0-based)
moveDeadNodes(h, ns) ==
    SelectSeq(ns, LAMBDA id : h[id].State # StateDead)
      \o SelectSeq(ns, LAMBDA id : h[id].State = StateDead)
deadIdx(h, ns) == Len(SelectSeq(ns, LAMBDA id : h[id].State # StateDead))

\* resetNodes without the delete(m.nodeMap, ...) of line 195: the Dead tail
\* leaves the sequence only
resetNodesKeepsMap(P, rank) ==
    LET moved == moveDeadNodes(P.heap, P.nodes)
        idx == deadIdx(P.heap, P.nodes)
    IN [P EXCEPT !.nodes = shuffleNodes(SubSeq(moved, 1, idx), rank)]

\* resetNodes: the Dead tail leaves the map and the sequence, the rest is
\* shuffled.  A removed record that timer i still points at is kept for it
\* at id MaxNode + i.
resetNodes(P, rank) ==
    LET moved == moveDeadNodes(P.heap, P.nodes)
        idx == deadIdx(P.heap, P.nodes)
        goneIds == {moved[i] : i \in (idx + 1)..Len(moved)}
        gone == {P.heap[id].Name : id \in goneIds}
        tm == P.timers
        held == {i \in DOMAIN tm : tm[i].pc # "idle" /\ tm[i].rec \in goneIds}
        keep == DOMAIN P.heap \ goneIds
    IN [P EXCEPT
          !.heap = [id \in keep \cup {MaxNode + i : i \in held} |->
                      IF id \in keep THEN P.heap[id]
                      ELSE P.heap[tm[id - MaxNode].rec]],
          !.nodeMap = Restrict(P.nodeMap, DOMAIN P.nodeMap \ gone),
          !.nodes = shuffleNodes(SubSeq(moved, 1, idx), rank),
          !.timers = [i \in DOMAIN tm |->
                        IF i \in held THEN [tm[i] EXCEPT !.rec = MaxNode + i]
                        ELSE tm[i]]]

\* probe, lines 108-117: is the record at probeIndex ourselves or Dead
probeSkips(P, id) == P.heap[id].Name = Self \/ P.heap[id].State = StateDead

\* probe(), lines 92-125: the loop from START until it returns (node = 0) or
\* has a record to probe
\* probe, lines 100-104: the wrap-around, m.resetNodes(), m.probeIndex = 0,
\* numCheck++
probeWrap(P, rank) ==
    [resetNodes(P, rank) EXCEPT !.probeIndex = 0, !.numCheck = P.numCheck + 1]

RECURSIVE probeFrom(_, _)
probeFrom(P, rank) ==
    IF P.numCheck >= Len(P.nodes) THEN P
    ELSE IF P.probeIndex >= Len(P.nodes)
      THEN probeFrom(probeWrap(P, rank), rank)
    ELSE IF probeSkips(P, P.nodes[P.probeIndex + 1])
      THEN probeFrom([P EXCEPT !.numCheck = @ + 1, !.probeIndex = @ + 1], rank)
    ELSE [P EXCEPT !.node = P.nodes[P.probeIndex + 1]]

\* what probe() works on when it is called: the table and numCheck := 0
ProbeState ==
    [heap |-> heap, nodeMap |-> nodeMap, nodes |-> nodes, timers |-> timers,
     probeIndex |-> probeIndex, numCheck |-> 0, node |-> 0]

probe(rank) == probeFrom(ProbeState, rank)

\* the probe goroutine moves to p
SetProbe(p) ==
    /\ pr' = p
    /\ out' = <<>>

\* what a call of probe() leaves of the table
ProbeCommit(P) ==
    /\ heap' = P.heap
    /\ nodeMap' = P.nodeMap
    /\ nodes' = P.nodes
    /\ timers' = P.timers
    /\ probeIndex' = P.probeIndex

\* triggerFunc receives a tick of the probe ticker and calls probe(), which
\* finds no record to probe and returns (lines 95-97)
ProbeNone ==
    /\ pr.pc = "idle"
    /\ \E rank \in Ranks :
         LET P == probe(rank)
         IN /\ P.node = 0
            /\ ProbeCommit(P)
    /\ SetProbe(IdleProbe)
    /\ UNCHANGED <<schedVars, incarnation, sequenceNum, leave, clock, ackVars, notified>>

\* setAckChannel(seqNo, ch, timeout): the handler is registered and the reap
\* timer armed
setAckChannel(seqNo) ==
    /\ ackHandlers' = ackHandlers \cup {seqNo}
    /\ ackTimer' = [ackTimer EXCEPT ![seqNo] = "armed"]
    /\ ackCh' = [ackCh EXCEPT ![seqNo] = [sent |-> <<>>, rd |-> 0]]

\* probe() finds a record and calls probeNode, lines 134-145: a seqNo is
\* taken, the ack channel set up and the ping sent (sent) or not (~sent)
probeNode(sent) ==
    /\ pr.pc = "idle"
    /\ sequenceNum < MaxSeq
    /\ \E rank \in Ranks :
         LET P == probe(rank)
         IN /\ P.node # 0
            /\ ProbeCommit(P)
            /\ SetProbe(IF sent
                          THEN [IdleProbe EXCEPT !.pc = "wait1", !.node = P.node,
                                                 !.seq = sequenceNum + 1]
                          ELSE IdleProbe)
    /\ sequenceNum' = sequenceNum + 1
    /\ setAckChannel(sequenceNum + 1)
    /\ UNCHANGED <<schedVars, incarnation, leave, clock, acking, notified>>

\* probeNode, line 142: the ping is sent
ProbePing == probeNode(TRUE)

\* probeNode, lines 142-145: the send fails and probeNode returns
ProbePingErr == probeNode(FALSE)

\* the receive from ackCh without the test `v == true`
probeRecvIgnoresValue(at, onFalse) ==
    /\ pr.pc = at
    /\ Buffered(pr.seq) > 0
    /\ ackCh' = [ackCh EXCEPT ![pr.seq].rd = @ + 1]
    /\ SetProbe([pr EXCEPT !.pc = onFalse])
    /\ UNCHANGED <<schedVars, heap, nodeMap, nodes, probeIndex, incarnation, sequenceNum,
                   leave, clock, timers, ackHandlers, ackTimer, acking, notified>>

\* probeNode, lines 149-152 and 173-176: a value is received from ackCh
probeRecv(at, onFalse) ==
    /\ pr.pc = at
    /\ Buffered(pr.seq) > 0
    /\ ackCh' = [ackCh EXCEPT ![pr.seq].rd = @ + 1]
    /\ SetProbe(IF NextAck(pr.seq) THEN IdleProbe ELSE [pr EXCEPT !.pc = onFalse])
    /\ UNCHANGED <<schedVars, heap, nodeMap, nodes, probeIndex, incarnation, sequenceNum,
                   leave, clock, timers, ackHandlers, ackTimer, acking, notified>>

\* first select, case v := <-ackCh
ProbeAck1 == probeRecv("wait1", "wait2")

\* first select, case <-time.After(m.config.RTT); the indirect pings of lines
\* 157-169 are sent and the second select is entered
ProbeRTT ==
    /\ pr.pc = "wait1"
    /\ SetProbe([pr EXCEPT !.pc = "wait2"])
    /\ UNCHANGED <<schedVars, heap, nodeMap, nodes, probeIndex, incarnation, sequenceNum,
                   leave, clock, timers, ackVars, notified>>

\* second select, case v := <-ackCh
ProbeAck2 == probeRecv("wait2", "suspect")

\* probeNode, line 180: s := suspect{node.Incarnation, node.Name}, read
\* without the node lock
ProbeSuspectRead ==
    /\ pr.pc = "suspect"
    /\ SetProbe([pr EXCEPT !.pc = "suspectNode",
                           !.s = [Node |-> heap[pr.node].Name,
                                  Incarnation |-> heap[pr.node].Incarnation]])
    /\ UNCHANGED <<schedVars, heap, nodeMap, nodes, probeIndex, incarnation, sequenceNum,
                   leave, clock, timers, ackVars, notified>>

\* probeNode, line 181: m.suspectNode(&s)
ProbeSuspectNode ==
    /\ pr.pc = "suspectNode"
    /\ Commit(suspectNode(Table, pr.s, clock))
    /\ pr' = IdleProbe
    /\ UNCHANGED <<schedVars, probeIndex, sequenceNum, leave, clock, ackVars>>

\* ---------------------------------------------------------- specification
\* Every operation of state.go.
Next ==
    \/ AliveNode
    \/ SuspectNode
    \/ DeadNode
    \/ MergeState
    \/ Leave
    \/ Tick
    \/ TimerState
    \/ TimerChange
    \/ TimerTimeout
    \/ TimerDead
    \/ ReapTimerFire
    \/ ReapTimerRun
    \/ InvokeAckLookup
    \/ InvokeAckHandler
    \/ ProbeNone
    \/ ProbePing
    \/ ProbePingErr
    \/ ProbeAck1
    \/ ProbeRTT
    \/ ProbeAck2
    \/ ProbeSuspectRead
    \/ ProbeSuspectNode

Spec == Init /\ [][Next]_vars

\* The state machine: every inbound event and merge, leave, the clock, the
\* suspicion timers, and the probe ticks that find no record to probe and so
\* only sweep the table.  The one thing a probe of a record does to the table
\* is a call suspectNode(s) with some s of Events, which SuspectNode takes at
\* any time.
NextTable ==
    \/ AliveNode
    \/ SuspectNode
    \/ DeadNode
    \/ MergeState
    \/ Leave
    \/ Tick
    \/ TimerState
    \/ TimerChange
    \/ TimerTimeout
    \/ TimerDead
    \/ ProbeNone

SpecTable == Init /\ [][NextTable]_vars

\* The failure detector: probe, probeNode and the ack registry with the
\* suspicion timers, over a table that alive, suspect and dead messages fill.
NextProbe ==
    \/ AliveNode
    \/ SuspectNode
    \/ DeadNode
    \/ TimerState
    \/ TimerChange
    \/ TimerTimeout
    \/ TimerDead
    \/ ReapTimerFire
    \/ ReapTimerRun
    \/ InvokeAckLookup
    \/ InvokeAckHandler
    \/ ProbeNone
    \/ ProbePing
    \/ ProbePingErr
    \/ ProbeAck1
    \/ ProbeRTT
    \/ ProbeAck2
    \/ ProbeSuspectRead
    \/ ProbeSuspectNode

SpecProbe == Init /\ [][NextProbe]_vars

\* ------------------------------------------------------------ the claims
InTable(n) == n \in DOMAIN nodeMap
Record(n) == heap[nodeMap[n]]
SelfAlive == InTable(Self) /\ Record(Self).State = StateAlive
Peers == Names \ {Self}

\* C1: for every node name, the local node's own included, the Incarnation
\* of its record never decreases from one state to the next while the record
\* stays in the table.
C1_IncarnationMonotone ==
    [][\A n \in Names :
         (n \in DOMAIN nodeMap /\ n \in DOMAIN nodeMap')
            => heap'[nodeMap'[n]].Incarnation >= heap[nodeMap[n]].Incarnation]_vars

\* C2: a Suspect event, or a Dead event while leave is not initiated, that
\* names the local node (whose record is Alive) and carries an incarnation
\* >= the stored one, broadcasts exactly one Alive for self with the stored
\* incarnation plus one; the record stays Alive and stores the broadcast value.
C2_Refutation ==
    [][\A e \in Events :
         (/\ e.Node = Self
          /\ SelfAlive
          /\ e.Incarnation >= Record(Self).Incarnation
          /\ SuspectNodeOf(e) \/ (~leave /\ DeadNodeOf(e)))
            => /\ out' = <<Msg("alive", Self, Record(Self).Incarnation + 1)>>
               /\ Self \in DOMAIN nodeMap'
               /\ heap'[nodeMap'[Self]].State = StateAlive
               /\ heap'[nodeMap'[Self]].Incarnation = Record(Self).Incarnation + 1]_vars

\* C3: whenever the local node refutes a Suspect or Dead event about itself,
\* the Alive it broadcasts carries an incarnation strictly greater than the
\* one the event carries.
C3_RefuteAboveEvent ==
    [][\A e \in Events : \A j \in Incs :
         (/\ e.Node = Self
          /\ SuspectNodeOf(e) \/ DeadNodeOf(e)
          /\ out' = <<Msg("alive", Self, j)>>)
            => j > e.Incarnation]_vars

\* C4: while leave has not been initiated, the own record, once Alive, stays
\* in the table and Alive: no step makes it Suspect or Dead.
C4_SelfStaysAlive ==
    [][(~leave /\ SelfAlive)
          => (Self \in DOMAIN nodeMap' /\ heap'[nodeMap'[Self]].State = StateAlive)]_vars

\* a refutation has happened and left the own record Alive
C4_Witness ==
    /\ SelfAlive
    /\ ~leave
    /\ incarnation >= 1
    /\ Record(Self).Incarnation = incarnation
    /\ out = <<Msg("alive", Self, incarnation)>>

\* the State a record in state st with incarnation i has after an event of
\* the given kind with incarnation j, as the tie-break rules give it
RuleState(kind, st, i, j) ==
    IF kind = StateAlive THEN (IF j > i THEN StateAlive ELSE st)
    ELSE IF kind = StateSuspect
      THEN (IF st = StateAlive /\ j >= i THEN StateSuspect ELSE st)
    ELSE (IF st # StateDead /\ j >= i THEN StateDead ELSE st)

\* C5: for a record of a node other than self with incarnation i, an Alive
\* makes it Alive iff its incarnation is > i and otherwise leaves the record
\* as it is; a Suspect makes an Alive record Suspect iff its incarnation is
\* >= i and never changes a Suspect or Dead record; a Dead makes an Alive or
\* Suspect record Dead iff its incarnation is >= i.  The same holds for the
\* event a merge feeds to the state machine and for the Dead of a suspicion
\* timer.  Checked of every handler on every event in every reachable state.
C5_TieBreak ==
    \A n \in Peers :
      InTable(n) =>
        LET old == Record(n)
            st == old.State
            i == old.Incarnation
            After(T) == T.heap[T.nodeMap[n]]
        IN /\ \A j \in Incs :
                LET e == [Node |-> n, Incarnation |-> j]
                    A == aliveNode(Table, e, 0, clock)
                    S == suspectNode(Table, e, clock)
                    D == deadNode(Table, e, clock, leave)
                IN /\ After(A).State = RuleState(StateAlive, st, i, j)
                   /\ j <= i => After(A) = old
                   /\ After(S).State = RuleState(StateSuspect, st, i, j)
                   /\ st # StateAlive => After(S) = old
                   /\ After(D).State = RuleState(StateDead, st, i, j)
                   /\ \A k \in States :
                        After(mergeState(Table,
                                <<[Name |-> n, Incarnation |-> j, State |-> k]>>,
                                <<0>>, clock, leave)).State
                          = RuleState(k, st, i, j)
           /\ \A t \in 1..MaxTimers :
                (timers[t].pc = "dead" /\ timers[t].d.Node = n)
                  => After(deadNode(Table, timers[t].d, clock, leave)).State
                       = RuleState(StateDead, st, i, timers[t].d.Incarnation)

\* a Dead at the incarnation the record held has made a peer's record Dead
C5_Witness ==
    \E n \in Peers :
      /\ InTable(n)
      /\ Record(n).State = StateDead
      /\ Record(n).Incarnation >= 1
      /\ out = <<Msg("dead", n, Record(n).Incarnation), Msg("leave", n, 0)>>

\* the Join and Leave notifications for n among the outputs o of a step
Notifs(n, o) == SelectSeq(o, LAMBDA m : m.Node = n /\ m.kind \in {"join", "leave"})
\* no record for n, or a Dead one
DeadIn(h, nm, n) == n \notin DOMAIN nm \/ h[nm[n]].State = StateDead

\* C6: in every step the notifications for a name are Join exactly for a
\* change from Dead (or from no record, which starts Dead) to Alive and Leave
\* exactly for a change to Dead: they alternate, start with Join iff the
\* record was Dead or missing, end with Leave iff it is Dead or missing
\* afterwards, and there is none when neither changed.  The last
\* notification sent for a name is a Join iff its record is there and not
\* Dead, so over the whole run they alternate Join, Leave, Join, ... from a
\* Join, across the sweeps that remove a record too.
C6_JoinLeaveAlternate ==
    [][\A n \in Names :
         LET ns == Notifs(n, out')
             wasDead == DeadIn(heap, nodeMap, n)
             isDead == DeadIn(heap', nodeMap', n)
         IN /\ \A k \in 1..(Len(ns) - 1) : ns[k].kind # ns[k + 1].kind
            /\ ns = <<>> => (wasDead <=> isDead)
            /\ ns # <<>> => /\ (ns[1].kind = "join") <=> wasDead
                            /\ (ns[Len(ns)].kind = "leave") <=> isDead
            /\ (notified'[n] = "join") <=> ~isDead
            /\ (notified[n] = "join") <=> ~wasDead]_vars

\* a peer has come back from Dead: the Join follows an earlier Leave
C6_Witness ==
    \E n \in Peers :
      /\ InTable(n)
      /\ Record(n).State = StateAlive
      /\ Record(n).Incarnation = 2
      /\ out = <<Msg("alive", n, 2), Msg("join", n, 0)>>
      /\ \E t \in 1..MaxTimers : timers[t].pc # "idle" /\ timers[t].rec > MaxNode

\* the record timer t was armed for is still in the table, and a transition
\* applied to it at a later reading of the clock has changed its StateChange
TimerStale(t) ==
    LET n == timers[t].d.Node
    IN /\ n \in DOMAIN nodeMap
       /\ nodeMap[n] = timers[t].rec
       /\ heap[nodeMap[n]].StateChange # timers[t].changeTime

\* C8: when a transition of the record has been applied since the timer was
\* armed, the timer's call of deadNode is a no-op: nothing is broadcast or
\* notified and no record changes.
C8_StaleTimerNoOp ==
    [][\A t \in 1..MaxTimers :
         (TimerDeadNode(t) /\ TimerStale(t))
            => /\ out' = <<>>
               /\ nodeMap' = nodeMap
               /\ \A n \in DOMAIN nodeMap : heap'[nodeMap[n]] = heap[nodeMap[n]]]_vars

\* the steps of the callback of suspicion timer t
TimerStep(t) ==
    \/ TimerReadState(t)
    \/ TimerReadChange(t)
    \/ suspectTimeout(t)
    \/ TimerDeadNode(t)

\* The suspicion mechanism: the inbound events, the clock, the probe ticks
\* that sweep the table, and the timers, which run: a callback that
\* time.AfterFunc has scheduled is a goroutine of its own, and the scheduler
\* runs it.
NextSuspicion ==
    \/ AliveNode
    \/ SuspectNode
    \/ DeadNode
    \/ Tick
    \/ TimerState
    \/ TimerChange
    \/ TimerTimeout
    \/ TimerDead
    \/ ProbeNone

SpecSuspicion ==
    Init /\ [][NextSuspicion]_vars /\ \A t \in 1..MaxTimers : WF_vars(TimerStep(t))

SuspectAt(n, i) ==
    InTable(n) /\ Record(n).State = StateSuspect /\ Record(n).Incarnation = i
\* n is Dead at incarnation i by a step that broadcast the dead message and
\* sent one Leave
TimedOut(n, i) ==
    /\ InTable(n)
    /\ Record(n).State = StateDead
    /\ Record(n).Incarnation = i
    /\ \E k \in 1..Len(out) : out[k] = Msg("dead", n, i)
    /\ Len(Notifs(n, out)) = 1
\* an event about n with another incarnation has been accepted
Superseded(n, i) == InTable(n) /\ Record(n).Incarnation > i

C7_AckAtMostOnce == \A q \in SeqNos : Len(ackCh[q].sent) <= 1

\* C10: a probe whose ack was put on ackCh by invokeAckHandler while the reap
\* timer had not fired (so that ah.timer.Stop() stopped it) never gets to
\* suspectNode, whether the ack came before the RTT wait ended or after.
C10_AckedProbeSucceeds ==
    pr.pc \in {"suspect", "suspectNode"} => ackTimer[pr.seq] # "stopped"

\* the ack came after the RTT wait, the reap timer was stopped, and the probe
\* has returned on it
C10_Witness ==
    \E q \in SeqNos :
      /\ pr.pc = "idle"
      /\ ackTimer[q] = "stopped"
      /\ ackCh[q] = [sent |-> <<TRUE>>, rd |-> 1]
      /\ \E n \in Peers : InTable(n) /\ Record(n).State = StateAlive

\* the records of the sequence that are not Dead
LiveIds == {id \in Range(nodes) : heap[id].State # StateDead}

\* C11: whatever the table holds when probe wraps around, after the sweep
\* (resetNodes and the reset of probeIndex) the sequence holds exactly the
\* records that were Alive or Suspect, each once; the mapping has exactly
\* their names as keys, each pointing to the record it pointed to, which is
\* as it was; no Dead record is left in either; and probeIndex is 0.
C11_ResetSweep ==
    \A rank \in Ranks :
      LET R == probeWrap(ProbeState, rank)
      IN /\ Range(R.nodes) = LiveIds
         /\ Len(R.nodes) = Cardinality(LiveIds)
         /\ DOMAIN R.nodeMap = {heap[id].Name : id \in LiveIds}
         /\ \A n \in DOMAIN R.nodeMap :
               /\ R.nodeMap[n] = nodeMap[n]
               /\ R.nodeMap[n] \in Range(R.nodes)
               /\ R.heap[R.nodeMap[n]] = heap[nodeMap[n]]
         /\ \A n \in DOMAIN nodeMap :
               heap[nodeMap[n]].State = StateDead
                 => n \notin DOMAIN R.nodeMap /\ nodeMap[n] \notin Range(R.nodes)
         /\ R.probeIndex = 0

\* a sweep has removed the Dead record of a peer and kept the own record
C11_Witness ==
    /\ \E n \in Peers : notified[n] = "leave" /\ ~InTable(n)
    /\ SelfAlive
    /\ nodes = <<nodeMap[Self]>>
    /\ probeIndex = 0
    /\ out = <<>>

\* C12: in every reachable state the names of the mapping are the names of
\* the records in the sequence, no name occurs twice in the sequence, and the
\* sequence entry of a name is the record the mapping holds for it.
C12_MapAndSequenceAgree ==
    /\ {heap[id].Name : id \in Range(nodes)} = DOMAIN nodeMap
    /\ \A i, j \in 1..Len(nodes) :
          heap[nodes[i]].Name = heap[nodes[j]].Name => i = j
    /\ \A i \in 1..Len(nodes) : nodeMap[heap[nodes[i]].Name] = nodes[i]

\* the table holds two records, one of them created anew for a name whose
\* earlier record a sweep removed and a suspicion timer still holds
C12_Witness ==
    /\ Len(nodes) = 2
    /\ \E t \in 1..MaxTimers :
          /\ timers[t].pc # "idle"
          /\ timers[t].rec \notin Range(nodes)
          /\ InTable(heap[timers[t].rec].Name)

\* C13: a table that a remote state vector has just been merged into takes
\* a second merge of the same vector without a broadcast or notification and
\* without a change to any record, whatever the vector, Suspect and Dead
\* entries about the local node included.
C13_MergeIdempotent ==
    \A remote \in SeqsUpTo(PushNodeStates, MaxRemote) :
      \A rnds \in [1..Len(remote) -> Rands] :
        LET T1 == mergeState(Table, remote, rnds, clock, leave)
            T2 == mergeState([T1 EXCEPT !.out = <<>>], remote, rnds, clock, leave)
        IN (~T1.ovf /\ ~T2.ovf) => (T2.out = <<>> /\ T2.heap = T1.heap)

\* every record of a remote vector fed, in order, to aliveNode, suspectNode
\* or deadNode according to its State
RECURSIVE feedFrom(_, _, _, _, _, _)
feedFrom(T, remote, rnds, i, now, lv) ==
    IF i > Len(remote) \/ T.ovf THEN T
    ELSE feedFrom(mergeOne(T, remote[i], rnds[i], now, lv), remote, rnds, i + 1,
                  now, lv)

\* C18: for every table and every remote vector, mergeState, which skips the
\* records whose State equals the local one, leaves the same table (the same
\* names with the same State and Incarnation) and produces the same
\* broadcasts and notifications as feeding every record to its handler.
C18_SkipPreservesMerge ==
    \A remote \in SeqsUpTo(PushNodeStates, MaxRemote) :
      \A rnds \in [1..Len(remote) -> Rands] :
        LET A == mergeState(Table, remote, rnds, clock, leave)
            B == feedFrom(Table, remote, rnds, 1, clock, leave)
        IN (~A.ovf /\ ~B.ovf)
             => /\ A.out = B.out
                /\ DOMAIN A.nodeMap = DOMAIN B.nodeMap
                /\ \A n \in DOMAIN A.nodeMap :
                      LET a == A.heap[A.nodeMap[n]]
                          b == B.heap[B.nodeMap[n]]
                      IN a.State = b.State /\ a.Incarnation = b.Incarnation

\* C19: aliveNode(a) for a name that is not in the table leaves a record for
\* a.Node that is Alive with the Incarnation of a, and produces one alive
\* re-broadcast and one Join, for every a.Incarnation, 0 included.
C19_FirstAliveJoins ==
    [][\A a \in Events :
         (a.Node \notin DOMAIN nodeMap /\ AliveNodeOf(a))
            => /\ a.Node \in DOMAIN nodeMap'
               /\ heap'[nodeMap'[a.Node]].State = StateAlive
               /\ heap'[nodeMap'[a.Node]].Incarnation = a.Incarnation
               /\ out' = <<Msg("alive", a.Node, a.Incarnation),
                           Msg("join", a.Node, 0)>>]_vars

\* the steps of the probe goroutine once probeNode has sent its ping
ProbeStep ==
    \/ ProbeAck1
    \/ ProbeRTT
    \/ ProbeAck2
    \/ ProbeSuspectRead
    \/ ProbeSuspectNode

\* The failure detector with the progress the runtime gives it: a goroutine
\* that can take a step takes it (the probe, the callbacks of the reap and
\* suspicion timers, an invokeAckHandler past its lookup) and an armed timer
\* fires.  Nothing is assumed of the network: an ack need not arrive.
NextProbeLive ==
    \/ AliveNode
    \/ DeadNode
    \/ TimerState
    \/ TimerChange
    \/ TimerTimeout
    \/ TimerDead
    \/ ReapTimerFire
    \/ ReapTimerRun
    \/ InvokeAckLookup
    \/ InvokeAckHandler
    \/ ProbeNone
    \/ ProbePing
    \/ ProbePingErr
    \/ ProbeAck1
    \/ ProbeRTT
    \/ ProbeAck2
    \/ ProbeSuspectRead
    \/ ProbeSuspectNode

SpecProbeLive ==
    /\ Init
    /\ [][NextProbeLive]_vars
    /\ WF_vars(ProbeStep)
    /\ WF_vars(ReapTimerFire)
    /\ WF_vars(ReapTimerRun)
    /\ WF_vars(InvokeAckHandler)
    /\ \A t \in 1..MaxTimers : WF_vars(TimerStep(t))

\* C16: every probeNode that has sent its ping ends, by returning or by
\* calling suspectNode and returning, in every order of the ack, the end of
\* the RTT wait and the reap timer.
C16_ProbeTerminates == (pr.pc # "idle") ~> (pr.pc = "idle")

\* ------------------------------------------------ the round of the probes
\* The probe ticks over tables of up to MaxRoundNode records: alive and dead
\* messages fill the table, and every tick is served, by a probe() that
\* finds no record to probe or by a probeNode whose ping is answered within
\* the RTT wait.
RoundNames == 1..MaxRoundNode
RoundEvents == [Node : RoundNames, Incarnation : {1}]
\* the ranks a shuffle can draw for the records of these tables
\* the sequence numbers of a counter that wraps round
RoundSeqNos == 0..MaxSeq
RoundRanks ==
    {f \in [RoundNames -> 1..MaxRoundNode] :
        \A i, j \in RoundNames : f[i] = f[j] => i = j}

InitRound ==
    /\ SchedulerRunning
    /\ heap = <<>>
    /\ nodeMap = <<>>
    /\ nodes = <<>>
    /\ probeIndex = 0
    /\ incarnation = 0
    /\ sequenceNum = 0
    /\ leave = FALSE
    /\ clock = 1
    /\ timers = [i \in 1..MaxTimers |-> IdleTimer]
    /\ ackHandlers = {}
    /\ ackTimer = [q \in RoundSeqNos |-> "none"]
    /\ ackCh = [q \in RoundSeqNos |-> [sent |-> <<>>, rd |-> 0]]
    /\ acking = {}
    /\ pr = IdleProbe
    /\ out = <<>>
    /\ notified = [n \in RoundNames |-> "none"]

RoundAlive == \E a \in RoundEvents : AliveNodeOf(a)
RoundDead == \E d \in RoundEvents : DeadNodeOf(d)

\* nextSeqNo(): atomic.AddUint32(&m.sequenceNum, 1), on a counter that wraps
\* round to 0 after MaxSeq as the uint32 does after its greatest value
nextSeqNo(s) == (s + 1) % (MaxSeq + 1)

\* triggerFunc serves a tick of the probe ticker: probe() runs; when it has
\* a record, probeNode takes a seqNo, registers the ack channel and pings,
\* the ack comes back within the RTT wait (invokeAckHandler stops the reap
\* timer and sends true) and the first select returns on it.
RoundTick ==
    /\ pr.pc = "idle"
    /\ \E rank \in RoundRanks :
         LET P == probe(rank)
             q == nextSeqNo(sequenceNum)
         IN /\ ProbeCommit(P)
            /\ IF P.node = 0
                 THEN UNCHANGED <<sequenceNum, ackVars>>
                 ELSE /\ sequenceNum' = q
                      /\ ackHandlers' = (ackHandlers \cup {q}) \ {q}
                      /\ ackTimer' = [ackTimer EXCEPT ![q] = "stopped"]
                      /\ ackCh' = [ackCh EXCEPT ![q] = [sent |-> <<TRUE>>, rd |-> 1]]
                      /\ UNCHANGED acking
    /\ SetProbe(IdleProbe)
    /\ UNCHANGED <<schedVars, incarnation, leave, clock, notified>>

NextRound ==
    \/ RoundAlive
    \/ RoundDead
    \/ RoundTick

\* the probe ticker keeps ticking and its driver serves every tick
SpecRound == InitRound /\ [][NextRound]_vars /\ WF_vars(RoundTick)

\* the records a probe can pick: not the own one, not Dead
Eligible == {id \in Range(nodes) : heap[id].Name # Self /\ heap[id].State # StateDead}

\* the records that k consecutive calls of probe() pick, starting from P,
\* when nothing changes the table in between
RECURSIVE probedWithin(_, _, _)
probedWithin(P, rank, k) ==
    IF k = 0 THEN {}
    ELSE LET Q == probeFrom([P EXCEPT !.numCheck = 0, !.node = 0], rank)
         IN {Q.node} \cup probedWithin(Q, rank, k - 1)

\* C17: with at least two records that are neither the own one nor Dead,
\* and probes that succeed and so leave the table as it is, two consecutive
\* ticks probe different records, and Len(nodes) consecutive ticks probe
\* every such record.
C17_RoundRobin ==
    Cardinality(Eligible) >= 2 =>
      \A rank \in RoundRanks :
        LET P1 == probe(rank)
            P2 == probeFrom([P1 EXCEPT !.numCheck = 0, !.node = 0], rank)
        IN /\ P1.node # 0
           /\ P2.node # 0
           /\ P1.node # P2.node
           /\ Eligible \subseteq probedWithin(ProbeState, rank, Len(nodes))

\* C20: under repeated probe ticks a record that is Dead is removed from
\* the table by a sweep, unless an Alive revives it first, also while other
\* peers stay Alive and answer their probes.
C20_DeadIsSwept ==
    \A n \in RoundNames :
      (InTable(n) /\ Record(n).State = StateDead)
         ~> (~InTable(n) \/ Record(n).State # StateDead)

\* ------------------------------------------------------------ scheduler
\* schedule, triggerFunc and deschedule.  What a handler does to the member
\* list is the business of the specifications above; here a handler is the
\* time a driver spends between taking a tick and coming back to its select.
Configs ==
    [ProbeInterval : 0..MaxInterval, PushPullInterval : 0..MaxInterval,
     GossipInterval : 0..MaxInterval, GossipNodes : 0..MaxGossipNodes]

\* the period the ticker of an activity is created with
Interval(cfg, a) ==
    CASE a = "probe"    -> cfg.ProbeInterval
      [] a = "pushPull" -> cfg.PushPullInterval
      [] a = "gossip"   -> cfg.GossipInterval

\* the condition schedule tests before it arms an activity
armed(cfg, a) ==
    CASE a = "probe"    -> cfg.ProbeInterval > 0
      [] a = "pushPull" -> cfg.PushPullInterval > 0
      [] a = "gossip"   -> cfg.GossipNodes > 0

\* time.NewTicker panics on a period that is not positive
NewTickerPanics(cfg, a) == armed(cfg, a) /\ Interval(cfg, a) <= 0

\* The activities schedule has armed when it returns or panics.  Only the
\* last one, gossip, can be armed with a period of zero, so the ones before
\* it are armed by then.
schedule(cfg) ==
    SelectSeq(Activities, LAMBDA a : armed(cfg, a) /\ ~NewTickerPanics(cfg, a))

\* One turn of the loop of triggerFunc, from driver state d: a tick taken
\* from C calls f, f returns to the select, a stop tick ends the goroutine.
triggerFuncIgnoresStop(d, ev) ==
    CASE d = "wait" /\ ev = "tick" -> "run"
      [] d = "run" /\ ev = "done"  -> "wait"
      [] OTHER                     -> d

triggerFunc(d, ev) ==
    CASE d = "wait" /\ ev = "tick" -> "run"
      [] d = "wait" /\ ev = "stop" -> "exited"
      [] d = "run" /\ ev = "done"  -> "wait"
      [] OTHER                     -> d

InitSched ==
    /\ InitMembers
    /\ config \in Configs
    /\ tickers = <<>>
    /\ ticker = [a \in Activity |-> "none"]
    /\ tickC = [a \in Activity |-> 0]
    /\ drivers = [a \in Activity |-> "none"]
    /\ sc = [pc |-> "new", i |-> 0]

Members == <<heap, nodeMap, nodes, probeIndex, incarnation, sequenceNum, leave,
             clock, timers, ackHandlers, ackTimer, ackCh, acking, pr, out,
             notified>>

Schedule ==
    /\ sc.pc = "new"
    /\ tickers' = tickers \o schedule(config)
    /\ ticker' = [a \in Activity |->
                    IF a \in Range(schedule(config)) THEN "on" ELSE ticker[a]]
    /\ drivers' = [a \in Activity |->
                    IF a \in Range(schedule(config)) THEN "wait" ELSE drivers[a]]
    /\ sc' = [sc EXCEPT !.pc = IF \E a \in Activity : NewTickerPanics(config, a)
                                 THEN "panicked" ELSE "running"]
    /\ UNCHANGED <<Members, config, tickC>>

\* A ticker delivers a tick into its channel of one place, and drops the tick
\* when the place is taken.
TickerFire(a) ==
    /\ sc.pc \notin {"new", "panicked"}
    /\ ticker[a] = "on"
    /\ tickC[a] = 0
    /\ tickC' = [tickC EXCEPT ![a] = 1]
    /\ UNCHANGED <<Members, config, tickers, ticker, drivers, sc>>

DriverTake(a) ==
    /\ sc.pc \notin {"new", "panicked"}
    /\ drivers[a] = "wait"
    /\ tickC[a] > 0
    /\ tickC' = [tickC EXCEPT ![a] = 0]
    /\ drivers' = [drivers EXCEPT ![a] = triggerFunc(@, "tick")]
    /\ UNCHANGED <<Members, config, tickers, ticker, sc>>

DriverDone(a) ==
    /\ sc.pc \notin {"new", "panicked"}
    /\ drivers[a] = "run"
    /\ drivers' = [drivers EXCEPT ![a] = triggerFunc(@, "done")]
    /\ UNCHANGED <<Members, config, tickers, ticker, tickC, sc>>

\* deschedule enters its loop, or leaves at once when there is no ticker
DescheduleStart ==
    /\ sc.pc = "running"
    /\ IF tickers = <<>>
         THEN sc' = [pc |-> "stopped", i |-> 0]
         ELSE sc' = [pc |-> "stop", i |-> 1]
    /\ UNCHANGED <<Members, config, tickers, ticker, tickC, drivers>>

\* t.Stop(): no further tick; a tick already in the channel stays there
DescheduleStop ==
    /\ sc.pc = "stop"
    /\ ticker' = [ticker EXCEPT ![tickers[sc.i]] = "stopped"]
    /\ sc' = [sc EXCEPT !.pc = "send"]
    /\ UNCHANGED <<Members, config, tickers, tickC, drivers>>

\* m.stopTick <- struct{}{} meets the select of a driver: the send returns
\* when a driver has taken the stop tick, and any driver that waits in its
\* select may be the one.  After the last ticker m.tickers is cleared.
StopTickHandoff(a) ==
    /\ sc.pc = "send"
    /\ drivers[a] = "wait"
    /\ drivers' = [drivers EXCEPT ![a] = triggerFunc(@, "stop")]
    /\ IF sc.i = Len(tickers)
         THEN /\ tickers' = <<>>
              /\ sc' = [pc |-> "stopped", i |-> 0]
         ELSE /\ tickers' = tickers
              /\ sc' = [pc |-> "stop", i |-> sc.i + 1]
    /\ UNCHANGED <<Members, config, ticker, tickC>>

NextSched ==
    \/ Schedule
    \/ \E a \in Activity : TickerFire(a)
    \/ \E a \in Activity : DriverTake(a)
    \/ \E a \in Activity : DriverDone(a)
    \/ DescheduleStart
    \/ DescheduleStop
    \/ \E a \in Activity : StopTickHandoff(a)

SpecSched == InitSched /\ [][NextSched]_vars

\* C14: once schedule has run it has not failed, and the ticker of an
\* activity exists, with a driver that runs the activity, exactly when the
\* interval of that activity is greater than zero.
C14_ArmedIffInterval ==
    sc.pc # "new" =>
      /\ sc.pc # "panicked"
      /\ \A a \in Activity :
           /\ (ticker[a] # "none") <=> (Interval(config, a) > 0)
           /\ (drivers[a] # "none") <=> (Interval(config, a) > 0)

====
